---------------------------- MODULE Spec2Model ----------------------------
(***************************************************************************)
(* Model of the span-based anonymization engine of src/anonymize.py:       *)
(* the offset-tracking driver anonymizeSpans, the two Anonymizer           *)
(* subclasses SimpleAnonym and AllAnonym, and AllAnonym's replacement      *)
(* strategies.                                                             *)
(*                                                                         *)
(* A Python str is a sequence of one-character strings.  A strategy that   *)
(* draws from `random` is modelled by the set of results it can return.    *)
(* A result of a str-returning method is a record [kind, val]: kind "str"  *)
(* carries the string, kind "None" is Python's None, any other kind is the *)
(* name of the exception the call raises.                                  *)
(***************************************************************************)
EXTENDS Integers, Sequences, FiniteSets, TLC

VARIABLES
    replace_dict,   \* AllAnonym.replace_dict: label -> name of the strategy method
    anonymizer,     \* anonymizeSpans: the class of its `anonymizer` argument
    text,           \* anonymizeSpans: the local `text` (the document so far)
    spans,          \* anonymizeSpans: the caller's list `spans`, shifted in place
    new_spans,      \* anonymizeSpans: the local `new_spans`
    offset,         \* anonymizeSpans: the local `offset`
    idx,            \* anonymizeSpans: 1-based position of the for loop in `spans`
    pc,             \* "idle", "loop", "done" (returned) or "raised"
    in_text,        \* history: `text` as passed by the caller
    in_spans,       \* history: the coordinates of `spans` as passed by the caller
    repls,          \* history: the new_text each anonymizer.anonymize call returned
    call            \* the last direct call of a method of AllAnonym and its result

vars == <<replace_dict, anonymizer, text, spans, new_spans, offset, idx, pc,
          in_text, in_spans, repls, call>>

driverVars == <<anonymizer, text, spans, new_spans, offset, idx, pc,
                in_text, in_spans, repls>>

----------------------------------------------------------------------------
(* Bounds of the model.                                                    *)

\* Longest span list handed to anonymizeSpans with sorted, in-bounds spans.
MaxSpans == 2
\* Most whitespace-separated words in a text handed to _replacePER directly.
MaxTokens == 3
\* Most fragments concatenated into a text handed to _replaceLOC directly.
MaxLocPieces == 2

----------------------------------------------------------------------------
(* Characters and the str methods the code uses.                           *)

lowers == <<"a","b","c","d","e","f","g","h","i","j","k","l","m",
            "n","o","p","q","r","s","t","u","v","w","x","y","z">>
uppers == <<"A","B","C","D","E","F","G","H","I","J","K","L","M",
            "N","O","P","Q","R","S","T","U","V","W","X","Y","Z">>
numbers == <<"0","1","2","3","4","5","6","7","8","9">>

\* The cased letters of the model's alphabet: ASCII plus the accented
\* letters of the keywords of _replaceLOC.
LowerLetters == lowers \o <<"í","ó","ç">>
UpperLetters == uppers \o <<"Í","Ó","Ç">>

Range(s) == { s[i] : i \in DOMAIN s }

IndexOf(s, c) == CHOOSE i \in DOMAIN s : s[i] = c

isupper(c) == c \in Range(UpperLetters)
islower(c) == c \in Range(LowerLetters)
isalpha(c) == isupper(c) \/ islower(c)
isnumeric(c) == c \in Range(numbers)
isdigit(c) == c \in Range(numbers)
isspace(c) == c \in {" ", "\t", "\n"}

lowerChar(c) == IF isupper(c) THEN LowerLetters[IndexOf(UpperLetters, c)] ELSE c
upperChar(c) == IF islower(c) THEN UpperLetters[IndexOf(LowerLetters, c)] ELSE c

\* str.lower(), str.upper(), str.capitalize()
lower(s) == [i \in DOMAIN s |-> lowerChar(s[i])]
upper(s) == [i \in DOMAIN s |-> upperChar(s[i])]
capitalize(s) == [i \in DOMAIN s |-> IF i = 1 THEN upperChar(s[i]) ELSE lowerChar(s[i])]

\* Python's index normalisation of a slice bound i on a sequence of length n.
SliceBound(i, n) == IF i < 0 THEN (IF i + n < 0 THEN 0 ELSE i + n)
                    ELSE (IF i > n THEN n ELSE i)

\* s[a:b], s[:b], s[a:] with 0-based Python indices
Slice(s, a, b) == SubSeq(s, SliceBound(a, Len(s)) + 1, SliceBound(b, Len(s)))
SliceTo(s, b) == SubSeq(s, 1, SliceBound(b, Len(s)))
SliceFrom(s, a) == SubSeq(s, SliceBound(a, Len(s)) + 1, Len(s))

\* `needle in hay` for strings
Contains(hay, needle) ==
    \E i \in 0..(Len(hay) - Len(needle)) : SubSeq(hay, i + 1, i + Len(needle)) = needle

\* str.split(): the maximal runs of non-whitespace characters, in order
RECURSIVE SplitFrom(_, _, _)
SplitFrom(s, i, cur) ==
    IF i > Len(s) THEN (IF cur = <<>> THEN <<>> ELSE <<cur>>)
    ELSE IF isspace(s[i])
         THEN (IF cur = <<>> THEN <<>> ELSE <<cur>>) \o SplitFrom(s, i + 1, <<>>)
         ELSE SplitFrom(s, i + 1, Append(cur, s[i]))

split(s) == SplitFrom(s, 1, <<>>)

\* str(n) for an integer n >= 0, as the f-string formats it
RECURSIVE IntToStr(_)
IntToStr(n) == IF n < 10 THEN <<numbers[n + 1]>>
               ELSE IntToStr(n \div 10) \o <<numbers[(n % 10) + 1]>>

\* Results of str-returning methods
Str(s) == [kind |-> "str", val |-> s]
None == [kind |-> "None", val |-> <<>>]
Raise(exc) == [kind |-> exc, val |-> <<>>]


----------------------------------------------------------------------------
(* The gazetteer loaded by AllAnonym.__init__: a small instance of the     *)
(* four resource files.                                                    *)

_name_list == << <<"a","B">>, <<"e","v","a">> >>
_surname_list == << <<"l","i">>, <<"R","o","c","a">> >>

_nomenclator == <<
    [TIPUS_VIA |-> <<"c","a","r","r","e","r">>, PARTICULES |-> <<"d","e">>,  NOM |-> <<"S","a","n","t","s">>],
    [TIPUS_VIA |-> <<"r","a","m","b","l","a">>, PARTICULES |-> <<"d","e","l">>, NOM |-> <<"M","a","r">>],
    [TIPUS_VIA |-> <<"p","a","r","c">>,   PARTICULES |-> <<"d","e","l">>, NOM |-> <<"C","l","o","t">>],
    [TIPUS_VIA |-> <<"v","i","a">>,    PARTICULES |-> <<"l","a">>,  NOM |-> <<"P","a","u">>],
    [TIPUS_VIA |-> <<"p","l","a","ç","a">>,  PARTICULES |-> <<"d","e">>,  NOM |-> <<"S","o","l">>] >>

_barrios == << <<"H","o","r","t","a">>, <<"G","r","a","c","i","a">> >>

\* The TIPUS_VIA values that select the `streets` and the `parks` rows.
StreetTypes == { <<"c","a","r","r","e","r">>, <<"v","i","a">>, <<"c","a","r","r","e","r","ó">>, <<"a","v","i","n","g","u","d","a">>, <<"p","a","s","s","e","i","g">> }
ParkTypes == { <<"j","a","r","d","í">>, <<"p","l","a","c","e","t","a">>, <<"p","l","a","ç","a">>, <<"j","a","r","d","i","n","s">>, <<"p","a","r","c">> }

IsStreet(row) == row.TIPUS_VIA \in StreetTypes
IsPark(row) == row.TIPUS_VIA \in ParkTypes

\* The keyword lists of _replaceLOC.
DescriptorKeywords == { <<"c","a","r","r","e","r">>, <<"c","a","l","l","e">>, <<"v","í","a">>, <<"v","i","a">>, <<"c","a","r","r","e","r","o">>, <<"c","a","r","r","e","r","ó">> }
IntersectionMarkers == { <<" ","a","m","b"," ">>, <<" ","i"," ">>, <<" ","c","a","n","t","o","n","a","d","a"," ">> }
DistrictKeywords == { <<"d","i","s","t","r","i","c","t","e">>, <<"d","i","s","t","r","i","c","t">>, <<"d","i","s","t","r","i","t","o">>, <<"b","a","r","r","i","o">>, <<"b","a","r","r","i">>, <<"z","o","n","a">> }
ParkKeywords == { <<"p","a","r","k">>, <<"p","a","r","q","u","e">>, <<"j","a","r","d","í","n">>, <<"p","a","r","c">>, <<"p","l","a","ç","a">> }
Conjunctions == { <<"a","m","b">>, <<"i">>, <<"c","o","n">>, <<"y">>, <<"c","a","n","t","o","n","a","d","a">> }

\* random.randint(1, 100)
RandintLo == 1
RandintHi == 100

----------------------------------------------------------------------------
(* AllAnonym: the replacement strategies.  Each returns the set of results *)
(* the call can produce over the draws of `random`.                        *)

\* AllAnonym._format_string(text, replacement): text[0] and text[1] raise
\* IndexError when the token has no such character.
_format_string(txt, replacement) ==
    IF Len(txt) < 1 THEN Raise("IndexError")
    ELSE IF isupper(txt[1])
         THEN IF Len(txt) < 2 THEN Raise("IndexError")
              ELSE IF isupper(txt[2]) THEN Str(upper(replacement))
                   ELSE Str(capitalize(replacement))
         ELSE Str(replacement)

generateName(txt) == { _format_string(txt, name) : name \in Range(_name_list) }

generateSurname(txt) == { _format_string(txt, surname) : surname \in Range(_surname_list) }

\* f"{name} {surname}": generateName runs first, so its exception wins.
FullName(name, surname) ==
    IF name.kind # "str" THEN name
    ELSE IF surname.kind # "str" THEN surname
    ELSE Str(name.val \o <<" ">> \o surname.val)

_replacePER(txt) ==
    LET subwords == split(txt) IN
    IF Len(subwords) = 1 THEN generateName(txt)
    ELSE IF Len(subwords) < 2 THEN { Raise("IndexError") }
    ELSE { FullName(name, surname) :
               name \in generateName(subwords[1]),
               surname \in generateSurname(subwords[2]) }

\* f"{row['TIPUS_VIA']} {row['PARTICULES']} {row['NOM']}"
FormatRow(row) == row.TIPUS_VIA \o <<" ">> \o row.PARTICULES \o <<" ">> \o row.NOM

\* DataFrame.sample(1).iloc[0]: any one row; ValueError on an empty frame.
Sample1(rows) == Range(rows)

\* DataFrame.sample(2): two rows at distinct positions, in either order.
Sample2(rows) == { <<rows[i], rows[j]>> : i, j \in DOMAIN rows } \
                 { <<rows[i], rows[i]>> : i \in DOMAIN rows }

HasAny(lowered, keywords) == \E k \in keywords : Contains(lowered, k)

\* The mutant of LocBranch that tests the district keywords before the
\* intersection markers.
LocBranch_districtFirst(lowered) ==
    IF \E i \in DOMAIN lowered : isdigit(lowered[i]) THEN "address"
    ELSE IF HasAny(lowered, DistrictKeywords) THEN "district"
    ELSE IF HasAny(lowered, IntersectionMarkers) THEN "intersection"
    ELSE IF HasAny(lowered, ParkKeywords) THEN "park"
    ELSE "street"

\* The if/elif chain of _replaceLOC: the branch taken for the lower-cased text.
LocBranch(lowered) ==
    IF \E i \in DOMAIN lowered : isdigit(lowered[i]) THEN "address"
    ELSE IF HasAny(lowered, IntersectionMarkers) THEN "intersection"
    ELSE IF HasAny(lowered, DistrictKeywords) THEN "district"
    ELSE IF HasAny(lowered, ParkKeywords) THEN "park"
    ELSE "street"

_replaceLOC(txt) ==
    LET lowered == lower(txt)
        streets == SelectSeq(_nomenclator, IsStreet)
        parks == SelectSeq(_nomenclator, IsPark)
        branch == LocBranch(lowered)
    IN
    CASE branch = "address" ->
            IF Len(streets) < 1 THEN { Raise("ValueError") }
            ELSE IF HasAny(lowered, DescriptorKeywords)
                 THEN { Str(FormatRow(selection) \o <<" ">> \o IntToStr(n)) :
                            selection \in Sample1(streets), n \in RandintLo..RandintHi }
                 ELSE { Str(selection.NOM \o <<" ">> \o IntToStr(n)) :
                            selection \in Sample1(streets), n \in RandintLo..RandintHi }
      [] branch = "intersection" ->
            IF Len(streets) < 2 THEN { Raise("ValueError") }
            ELSE { Str(FormatRow(two[1]) \o <<" ">> \o c \o <<" ">> \o FormatRow(two[2])) :
                       two \in Sample2(streets), c \in Conjunctions }
      [] branch = "district" ->
            IF Len(_barrios) < 1 THEN { Raise("IndexError") }
            ELSE { Str(b) : b \in Range(_barrios) }
      [] branch = "park" ->
            IF Len(parks) < 1 THEN { Raise("ValueError") }
            ELSE { Str(FormatRow(selection)) : selection \in Sample1(parks) }
      [] branch = "street" ->
            IF Len(streets) < 1 THEN { Raise("ValueError") }
            ELSE { Str(FormatRow(selection)) : selection \in Sample1(streets) }

\* `pass`: the method returns None.
_replaceDefault(txt) == { None }

_replaceTELEPHONE(txt) == _replaceDefault(txt)
_replaceZIP(txt) == _replaceDefault(txt)
_replaceID(txt) == _replaceDefault(txt)
_replaceDATE(txt) == _replaceDefault(txt)
_replaceFINANCIAL(txt) == _replaceDefault(txt)
_replaceCARD(txt) == _replaceDefault(txt)
_replaceVEHICLE(txt) == _replaceDefault(txt)

_replaceDelete(txt) == { Str(<<>>) }

\* The dictionary built by AllAnonym.__init__; a value is the bound method's name.
ReplaceDictAtInit ==
    [label \in {"PER", "LOC", "DATE", "ZIP", "ID", "FINANCIAL", "VEHICLE",
                "CARD", "OTHER", "SENSITIVE"} |->
        CASE label = "PER" -> "_replacePER"
          [] label = "LOC" -> "_replaceLOC"
          [] label = "DATE" -> "_replaceDATE"
          [] label = "ZIP" -> "_replaceZIP"
          [] label = "ID" -> "_replaceID"
          [] label = "FINANCIAL" -> "_replaceFINANCIAL"
          [] label = "VEHICLE" -> "_replaceVEHICLE"
          [] label = "CARD" -> "_replaceCARD"
          [] label = "OTHER" -> "_replaceDefault"
          [] label = "SENSITIVE" -> "_replaceDelete"]

\* Calling the bound method of that name on old_text.
CallStrategy(method, txt) ==
    CASE method = "_replacePER" -> _replacePER(txt)
      [] method = "_replaceLOC" -> _replaceLOC(txt)
      [] method = "_replaceDATE" -> _replaceDATE(txt)
      [] method = "_replaceZIP" -> _replaceZIP(txt)
      [] method = "_replaceID" -> _replaceID(txt)
      [] method = "_replaceFINANCIAL" -> _replaceFINANCIAL(txt)
      [] method = "_replaceVEHICLE" -> _replaceVEHICLE(txt)
      [] method = "_replaceCARD" -> _replaceCARD(txt)
      [] method = "_replaceTELEPHONE" -> _replaceTELEPHONE(txt)
      [] method = "_replaceDefault" -> _replaceDefault(txt)
      [] method = "_replaceDelete" -> _replaceDelete(txt)

\* The mutant of SelectStrategy whose fallback is the delete strategy.
SelectStrategy_fallbackDelete(label) ==
    IF label \notin DOMAIN replace_dict THEN "_replaceDelete" ELSE replace_dict[label]

\* The method AllAnonym.anonymize calls for a label (line 123's conditional).
SelectStrategy(label) ==
    IF label \notin DOMAIN replace_dict THEN "_replaceDefault" ELSE replace_dict[label]

\* The result of an Anonymizer.anonymize call: kind "ok" carries
\* (new_span, new_text); any other kind is the exception raised.
Ok(span, s) == [kind |-> "ok", span |-> span, val |-> s]
Fail(exc, span) == [kind |-> exc, span |-> span, val |-> <<>>]

\* AllAnonym.anonymize(span, text): len(None) raises TypeError.
AllAnonym_anonymize(span, txt) ==
    LET old_text == Slice(txt, span.start, span.end) IN
    { IF r.kind = "str"
        THEN Ok([span EXCEPT !.end = span.start + Len(r.val)], r.val)
        ELSE IF r.kind = "None" THEN Fail("TypeError", span)
        ELSE Fail(r.kind, span) :
      r \in CallStrategy(SelectStrategy(span.label), old_text) }

\* random.choice(seq): any entry of seq.
Choice(seq) == Range(seq)

\* The per-character loop of SimpleAnonym.anonymize: every new_text it can build.
ShuffleChar(c) ==
    IF isnumeric(c) THEN Choice(numbers)
    ELSE IF isalpha(c) THEN (IF isupper(c) THEN Choice(uppers) ELSE Choice(lowers))
    ELSE { c }

RECURSIVE Shuffle(_)
Shuffle(s) ==
    IF s = <<>> THEN { <<>> }
    ELSE { <<c>> \o rest : c \in ShuffleChar(s[1]), rest \in Shuffle(Tail(s)) }

\* SimpleAnonym.anonymize(span, text): returns the span's copy and the whole
\* text with the span's characters shuffled.
SimpleAnonym_anonymize(span, txt) ==
    { Ok(span, SliceTo(txt, span.start) \o shuffled \o SliceFrom(txt, span.end)) :
      shuffled \in Shuffle(Slice(txt, span.start, span.end)) }

\* anonymizer.anonymize(span, text), dispatched on the anonymizer's class.
Anonymize(cls, span, txt) ==
    IF cls = "SimpleAnonym" THEN SimpleAnonym_anonymize(span, txt)
    ELSE AllAnonym_anonymize(span, txt)

----------------------------------------------------------------------------
(* The driver anonymizeSpans.                                              *)

\* The mutant of Shift that moves the start only.
Shift_startOnly(span, off) == [span EXCEPT !.start = @ + off]

\* span["start"] += offset; span["end"] += offset
Shift(span, off) == [span EXCEPT !.start = @ + off, !.end = @ + off]

\* The mutant of Splice that inserts the new text and keeps the old.
Splice_keepsOld(txt, span, new_text) ==
    SliceTo(txt, span.start) \o new_text \o SliceFrom(txt, span.start)

\* text[:span["start"]] + new_text + text[span["end"]:]
Splice(txt, span, new_text) ==
    SliceTo(txt, span.start) \o new_text \o SliceFrom(txt, span.end)

\* The mutant of NextOffset that adds the new length and forgets the old.
NextOffset_forgetsOld(off, new_span, span) == off + new_span.end - new_span.start

\* offset += new_span["end"] - span["end"]
NextOffset(off, new_span, span) == off + new_span.end - span.end

\* The inputs of the model: documents, labels and span lists.  Lists that
\* break the precondition are drawn over the documents of EdgeDocs.
\* SimpleAnonym never reads a label and every draw of its 26 letters and 10
\* digits is a successor, so its lists carry the labels of ShufflerLabels and
\* break the precondition with one span at most.
Docs == { <<"A","b">>, <<"a"," ","B","7">> }
EdgeDocs == { <<"A","b">> }
DriverLabels == { "PER", "LOC", "SENSITIVE", "OTHER" }
ShufflerLabels == { "PER" }
AnonymizerClasses == { "SimpleAnonym", "AllAnonym" }

SpansOver(lo, hi) ==
    [start : lo..hi, end : lo..hi, label : DriverLabels]

InBounds(span, doc) == 0 <= span.start /\ span.start <= span.end /\ span.end <= Len(doc)

\* Sorted by start and pairwise non-overlapping: each span ends before the next starts.
Sorted(list) == \A i \in 1..(Len(list) - 1) : list[i].end <= list[i + 1].start

ValidInput(doc, list) == Sorted(list) /\ \A i \in DOMAIN list : InBounds(list[i], doc)

\* Every sorted, in-bounds list of at most MaxSpans spans over doc.
RECURSIVE ValidListsFrom(_, _, _)
ValidListsFrom(doc, from, n) ==
    IF n = 0 THEN { <<>> }
    ELSE { <<>> } \cup
         { <<sp>> \o rest :
               sp \in { x \in SpansOver(from, Len(doc)) : x.start <= x.end },
               rest \in UNION { ValidListsFrom(doc, e, n - 1) : e \in from..Len(doc) } }

ValidLists(doc) ==
    { list \in ValidListsFrom(doc, 0, MaxSpans) : ValidInput(doc, list) }

\* One span or two with any coordinates from one before the document to one
\* past it: the inputs that break the precondition are among these.
AnySpan(doc) == SpansOver(0 - 1, Len(doc) + 1)
AnySingles(doc) == { <<a>> : a \in AnySpan(doc) }
AnyPairs(doc) == { <<a, b>> : a \in AnySpan(doc), b \in AnySpan(doc) }

SpanInputs(cls, doc) ==
    IF cls = "AllAnonym"
    THEN ValidLists(doc) \cup
         (IF doc \in EdgeDocs THEN AnySingles(doc) \cup AnyPairs(doc) ELSE {})
    ELSE { list \in ValidLists(doc) \cup (IF doc \in EdgeDocs THEN AnySingles(doc) ELSE {}) :
               \A i \in DOMAIN list : list[i].label \in ShufflerLabels }

\* def anonymizeSpans(anonymizer, spans, text): new_spans = []; offset = 0
Enter ==
    /\ pc = "idle"
    /\ \E cls \in AnonymizerClasses, doc \in Docs :
         \E list \in SpanInputs(cls, doc) :
            /\ anonymizer' = cls
            /\ text' = doc
            /\ spans' = list
            /\ in_text' = doc
            /\ in_spans' = list
    /\ new_spans' = <<>>
    /\ offset' = 0
    /\ idx' = 1
    /\ repls' = <<>>
    /\ pc' = "loop"
    /\ UNCHANGED <<replace_dict, call>>

\* One iteration of `for span in spans` in which anonymize returns.
LoopBody ==
    /\ pc = "loop"
    /\ idx <= Len(spans)
    /\ LET span == Shift(spans[idx], offset) IN
       \E r \in Anonymize(anonymizer, span, text) :
          /\ r.kind = "ok"
          /\ spans' = [spans EXCEPT ![idx] = span]
          /\ text' = Splice(text, span, r.val)
          /\ offset' = NextOffset(offset, r.span, span)
          /\ new_spans' = Append(new_spans, r.span)
          /\ repls' = Append(repls, r.val)
    /\ idx' = idx + 1
    /\ UNCHANGED <<replace_dict, anonymizer, pc, in_text, in_spans, call>>

\* One iteration in which anonymize raises: the span is already shifted and
\* the exception leaves anonymizeSpans.
LoopRaise ==
    /\ pc = "loop"
    /\ idx <= Len(spans)
    /\ LET span == Shift(spans[idx], offset) IN
       /\ \E r \in Anonymize(anonymizer, span, text) : r.kind # "ok"
       /\ spans' = [spans EXCEPT ![idx] = span]
    /\ pc' = "raised"
    /\ UNCHANGED <<replace_dict, anonymizer, text, new_spans, offset, idx,
                   in_text, in_spans, repls, call>>

\* return (new_spans, text)
Return ==
    /\ pc = "loop"
    /\ idx > Len(spans)
    /\ pc' = "done"
    /\ UNCHANGED <<replace_dict, anonymizer, text, spans, new_spans, offset, idx,
                   in_text, in_spans, repls, call>>

NoSpan == [start |-> 0, end |-> 0, label |-> ""]
NoCall == [fn |-> "none", txt |-> <<>>, replacement |-> <<>>, span |-> NoSpan,
           method |-> "", kind |-> "", val |-> <<>>, new_span |-> NoSpan]

\* The state after AllAnonym() and SimpleAnonym() are constructed.
Init ==
    /\ replace_dict = ReplaceDictAtInit
    /\ anonymizer = "AllAnonym"
    /\ text = <<>>
    /\ spans = <<>>
    /\ new_spans = <<>>
    /\ offset = 0
    /\ idx = 1
    /\ pc = "idle"
    /\ in_text = <<>>
    /\ in_spans = <<>>
    /\ repls = <<>>
    /\ call = NoCall

Next == Enter \/ LoopBody \/ LoopRaise \/ Return

Spec == Init /\ [][Next]_vars

----------------------------------------------------------------------------
(* Direct calls of AllAnonym's methods on bounded inputs.                  *)

\* Every string of at most n characters drawn from chars.
RECURSIVE Strings(_, _)
Strings(chars, n) ==
    IF n = 0 THEN { <<>> }
    ELSE LET shorter == Strings(chars, n - 1) IN
         shorter \cup { Append(w, c) : w \in shorter, c \in chars }

\* Every concatenation of exactly n / at most n members of pieces.
RECURSIVE Concats(_, _)
Concats(pieces, n) ==
    IF n = 0 THEN { <<>> }
    ELSE { w \o x : w \in Concats(pieces, n - 1), x \in pieces }

ConcatsUpTo(pieces, n) == UNION { Concats(pieces, k) : k \in 0..n }

\* Tokens handed to _format_string: at most MaxTokenLen characters.
MaxTokenLen == 2
TokenChars == { "A", "b", "7", "Ç" }
Tokens == Strings(TokenChars, MaxTokenLen)
Replacements == Range(_name_list) \cup Range(_surname_list)

\* Texts handed to _replacePER: at most MaxTokens words, single-spaced, with
\* or without a leading and a trailing space.
PerWords == { <<"J","o">>, <<"A","L">>, <<"l","i">>, <<"J">> }
Pads == { <<>>, <<" ">> }
PerTexts ==
    { lead \o body \o trail :
        lead \in Pads, trail \in Pads,
        body \in { <<>> } \cup
                 { w \o rest : w \in PerWords,
                               rest \in ConcatsUpTo({ <<" ">> \o x : x \in PerWords },
                                                    MaxTokens - 1) } }

\* Texts handed to _replaceLOC: at most MaxLocPieces fragments.
LocPieces == { <<"C","a","r","r","e","r">>, <<"v","í","a">>, <<" ","a","m","b"," ">>, <<" ","i"," ">>, <<" ","C","A","N","T","O","N","A","D","A"," ">>, <<"B","a","r","r","i">>, <<"z","o","n","a">>, <<"p","a","r","c">>,
               <<"P","l","a","ç","a">>, <<"4">>, <<"G","r","a","n">>, <<"i">> }
LocTexts == ConcatsUpTo(LocPieces, MaxLocPieces)

\* Labels of the spans handed to AllAnonym.anonymize.
AllLabels == (DOMAIN ReplaceDictAtInit) \cup { "PERSON", "LOCATION", "TELEPHONE", "MISC" }

Call_format_string ==
    /\ call.fn = "none"
    /\ \E txt \in Tokens, replacement \in Replacements :
         LET r == _format_string(txt, replacement) IN
         call' = [NoCall EXCEPT !.fn = "_format_string", !.txt = txt,
                                !.replacement = replacement,
                                !.kind = r.kind, !.val = r.val]
    /\ UNCHANGED <<replace_dict, driverVars>>

Call_replacePER ==
    /\ call.fn = "none"
    /\ \E txt \in PerTexts :
         \E r \in _replacePER(txt) :
            call' = [NoCall EXCEPT !.fn = "_replacePER", !.txt = txt,
                                   !.kind = r.kind, !.val = r.val]
    /\ UNCHANGED <<replace_dict, driverVars>>

Call_replaceLOC ==
    /\ call.fn = "none"
    /\ \E txt \in LocTexts :
         \E r \in _replaceLOC(txt) :
            call' = [NoCall EXCEPT !.fn = "_replaceLOC", !.txt = txt,
                                   !.kind = r.kind, !.val = r.val]
    /\ UNCHANGED <<replace_dict, driverVars>>

Call_anonymize ==
    /\ call.fn = "none"
    /\ \E txt \in Docs, label \in AllLabels :
         \E start \in 0..Len(txt), end \in 0..Len(txt) :
            /\ start <= end
            /\ LET span == [start |-> start, end |-> end, label |-> label] IN
               \E r \in AllAnonym_anonymize(span, txt) :
                  call' = [NoCall EXCEPT !.fn = "anonymize", !.txt = txt, !.span = span,
                                         !.method = SelectStrategy(label),
                                         !.kind = r.kind, !.val = r.val,
                                         !.new_span = r.span]
    /\ UNCHANGED <<replace_dict, driverVars>>

NextCalls == Call_format_string \/ Call_replacePER \/ Call_replaceLOC \/ Call_anonymize

SpecCalls == Init /\ [][NextCalls]_vars

----------------------------------------------------------------------------
(* Properties of the driver, checked under Spec.                           *)

\* The length of the caller's i-th span, in the original coordinates.
OrigLen(i) == in_spans[i].end - in_spans[i].start

\* The sum over the spans j < i of (length of replacement j - length of span j).
RECURSIVE Drift(_)
Drift(i) == IF i <= 1 THEN 0
            ELSE Drift(i - 1) + Len(repls[i - 1]) - OrigLen(i - 1)

\* The run is one of AllAnonym on a sorted, non-overlapping, in-bounds list.
AllAnonymOnValidInput ==
    /\ pc \in { "loop", "done", "raised" }
    /\ anonymizer = "AllAnonym"
    /\ ValidInput(in_text, in_spans)

\* C1 (offset law): with AllAnonym on sorted, non-overlapping, in-bounds
\* spans, the i-th span produced starts at the original start of span i plus
\* the sum over the earlier spans of (replacement length - original length)
\* and ends at that start plus the length of replacement i; the replacement
\* of a SENSITIVE span has length 0, so every later start drops by the
\* deleted span's original length.
OffsetLaw ==
    AllAnonymOnValidInput =>
        \A i \in DOMAIN new_spans :
            /\ new_spans[i].start = in_spans[i].start + Drift(i)
            /\ new_spans[i].end = new_spans[i].start + Len(repls[i])
            /\ in_spans[i].label = "SENSITIVE" => Len(repls[i]) = 0
            /\ (i > 1 /\ in_spans[i - 1].label = "SENSITIVE")
                   => Drift(i) = Drift(i - 1) - OrigLen(i - 1)

\* A returned pair of spans in which a non-empty SENSITIVE span was deleted
\* before a PER span whose replacement changed length.
OffsetLawWitness ==
    /\ AllAnonymOnValidInput
    /\ pc = "done"
    /\ Len(new_spans) = 2
    /\ in_spans[1].label = "SENSITIVE"
    /\ OrigLen(1) > 0
    /\ in_spans[2].label = "PER"
    /\ Len(repls[2]) # OrigLen(2)
    /\ new_spans[2].start = in_spans[2].start - OrigLen(1)

\* The text of the document between span k and span k + 1 of list (before
\* the first span for k = 0, after the last for k = Len(list)).
Gap(doc, list, k) ==
    LET from == IF k = 0 THEN 0 ELSE list[k].end
        to == IF k = Len(list) THEN Len(doc) ELSE list[k + 1].start
    IN SubSeq(doc, from + 1, to)

\* C2 (document/span consistency): after anonymizeSpans returns with
\* AllAnonym on sorted, non-overlapping, in-bounds spans, every returned span
\* lies in the returned document, the returned spans are sorted and
\* non-overlapping, the document sliced at each returned span is that span's
\* replacement text, and the text before, between and after the spans is the
\* original text of those gaps.
DocumentSpanConsistency ==
    (AllAnonymOnValidInput /\ pc = "done") =>
        /\ Len(new_spans) = Len(in_spans)
        /\ \A i \in DOMAIN new_spans :
              /\ InBounds(new_spans[i], text)
              /\ SubSeq(text, new_spans[i].start + 1, new_spans[i].end) = repls[i]
        /\ Sorted(new_spans)
        /\ \A k \in 0..Len(in_spans) : Gap(text, new_spans, k) = Gap(in_text, in_spans, k)

\* A returned document with two replaced spans, both of changed length, and a
\* non-empty gap between them.
DocumentSpanConsistencyWitness ==
    /\ AllAnonymOnValidInput
    /\ pc = "done"
    /\ Len(new_spans) = 2
    /\ Len(repls[1]) > OrigLen(1)
    /\ OrigLen(1) > 0
    /\ Len(repls[2]) # OrigLen(2)
    /\ Gap(in_text, in_spans, 1) # <<>>
    /\ Gap(text, new_spans, 1) = Gap(in_text, in_spans, 1)

\* The character classes of the shuffler: a digit for a digit, a letter of the
\* same case for a letter, the same character otherwise.
SameShape(old, new) ==
    /\ Len(new) = Len(old)
    /\ \A i \in DOMAIN old :
          IF isnumeric(old[i]) THEN isnumeric(new[i])
          ELSE IF isupper(old[i]) THEN isupper(new[i])
          ELSE IF islower(old[i]) THEN islower(new[i])
          ELSE new[i] = old[i]

\* C3 (shuffler shape law through the driver): with SimpleAnonym on sorted,
\* non-overlapping, in-bounds spans, each replacement text is the
\* substitution for its span only and has the span's length, the returned
\* document has the length of the input, the characters outside the spans are
\* unchanged, the characters inside keep their class, and the returned spans
\* have the input coordinates.
ShufflerShapeLaw ==
    (pc = "done" /\ anonymizer = "SimpleAnonym" /\ ValidInput(in_text, in_spans)) =>
        /\ Len(text) = Len(in_text)
        /\ new_spans = in_spans
        /\ \A i \in DOMAIN in_spans :
              /\ Len(repls[i]) = OrigLen(i)
              /\ SameShape(SubSeq(in_text, in_spans[i].start + 1, in_spans[i].end),
                           SubSeq(text, in_spans[i].start + 1, in_spans[i].end))
        /\ \A k \in 0..Len(in_spans) : Gap(text, in_spans, k) = Gap(in_text, in_spans, k)

\* C4 (fail fast): anonymizeSpans never returns when a span lies outside the
\* document, has start > end or starts before the end of the previous span.
FailFast == pc = "done" => ValidInput(in_text, in_spans)

\* C10 (effect on the caller's spans): the list keeps its length and labels;
\* the spans are visited once each, in order; with AllAnonym every visited
\* input span is shifted in place by the cumulative offset of the earlier
\* replacements, the returned span is a copy with the same start and label
\* whose end is set from the replacement, and a return hands back one span
\* per input span; when a strategy raises at span k nothing is returned, span
\* k is shifted and the spans after k are untouched.
CallerSpansEffect ==
    /\ Len(spans) = Len(in_spans)
    /\ \A i \in DOMAIN spans : spans[i].label = in_spans[i].label
    /\ Len(new_spans) = idx - 1
    /\ Len(repls) = idx - 1
    /\ \A i \in DOMAIN new_spans : new_spans[i].label = in_spans[i].label
    /\ pc = "done" => Len(new_spans) = Len(in_spans)
    /\ \A j \in DOMAIN spans :
          j > idx \/ (j = idx /\ pc # "raised") => spans[j] = in_spans[j]
    /\ anonymizer = "AllAnonym" =>
          /\ \A i \in DOMAIN new_spans :
                /\ spans[i].start = in_spans[i].start + Drift(i)
                /\ spans[i].end = in_spans[i].end + Drift(i)
                /\ new_spans[i].start = spans[i].start
                /\ new_spans[i].end = spans[i].start + Len(repls[i])
          /\ pc = "raised" =>
                /\ idx \in DOMAIN spans
                /\ spans[idx].start = in_spans[idx].start + Drift(idx)
                /\ spans[idx].end = in_spans[idx].end + Drift(idx)

\* A return after which the caller's second span no longer holds its original
\* coordinates and differs from the span returned for it.
CallerSpansEffectWitness ==
    /\ AllAnonymOnValidInput
    /\ pc = "done"
    /\ Len(spans) = 2
    /\ spans[2] # in_spans[2]
    /\ new_spans[2].start = spans[2].start
    /\ new_spans[2].end # spans[2].end

----------------------------------------------------------------------------
(* Properties of AllAnonym's methods, checked under SpecCalls.             *)

\* The labels whose strategy is the default placeholder.
DefaultLabels == { "OTHER", "DATE", "ZIP", "ID", "FINANCIAL", "CARD", "VEHICLE" }

\* C5 (unknown label is not an error): for a span whose label is not in the
\* registry, or is one of OTHER, DATE, ZIP, ID, FINANCIAL, CARD and VEHICLE,
\* AllAnonym.anonymize returns (newSpan, newText) with newText a string and
\* newSpan.end = newSpan.start + len(newText).
UnknownLabelIsNoError ==
    (/\ call.fn = "anonymize"
     /\ call.span.label \in DefaultLabels \cup (AllLabels \ DOMAIN replace_dict)) =>
        /\ call.kind = "ok"
        /\ call.new_span.end = call.new_span.start + Len(call.val)

\* The labels the specification lists for the registry.
ListedLabels == { "PERSON", "LOCATION", "DATE", "ZIP", "ID", "FINANCIAL", "VEHICLE",
                  "CARD", "SENSITIVE" }

\* C6 as stated (registry dispatch): the name generator is selected exactly
\* for the label PERSON, the address grammar exactly for LOCATION, the delete
\* strategy exactly for SENSITIVE, every label outside the listed ones goes
\* where OTHER goes, and the registry is the one built at construction.
RegistryDispatchAsStated ==
    /\ replace_dict = ReplaceDictAtInit
    /\ call.fn = "anonymize" =>
          /\ call.method = "_replacePER" <=> call.span.label = "PERSON"
          /\ call.method = "_replaceLOC" <=> call.span.label = "LOCATION"
          /\ call.method = "_replaceDelete" <=> call.span.label = "SENSITIVE"
          /\ call.span.label \notin ListedLabels => call.method = replace_dict["OTHER"]

\* The labels the registry of the code holds besides OTHER.
RegistryLabels == { "PER", "LOC", "DATE", "ZIP", "ID", "FINANCIAL", "VEHICLE",
                    "CARD", "SENSITIVE" }

\* C6 as amended: the name generator is selected exactly for the label PER,
\* the address grammar exactly for LOC, the delete strategy exactly for
\* SENSITIVE, every label outside {PER, LOC, DATE, ZIP, ID, FINANCIAL, VEHICLE,
\* CARD, SENSITIVE} (PERSON and LOCATION among them) goes to the default
\* strategy, where OTHER goes, and the registry is the one built at
\* construction.
RegistryDispatch ==
    /\ replace_dict = ReplaceDictAtInit
    /\ call.fn = "anonymize" =>
          /\ call.method = "_replacePER" <=> call.span.label = "PER"
          /\ call.method = "_replaceLOC" <=> call.span.label = "LOC"
          /\ call.method = "_replaceDelete" <=> call.span.label = "SENSITIVE"
          /\ call.span.label \notin RegistryLabels =>
                /\ call.method = "_replaceDefault"
                /\ call.method = replace_dict["OTHER"]

\* A span labelled PERSON that was routed to the default strategy.
RegistryDispatchWitness ==
    /\ call.fn = "anonymize"
    /\ call.span.label = "PERSON"
    /\ call.method = "_replaceDefault"

\* The casing rule as the specification states it: all caps when the first
\* two characters are uppercase, capitalized when only the first is (or there
\* is no second), unchanged otherwise.
StatedCasing(token, word) ==
    IF isupper(token[1])
    THEN IF Len(token) >= 2 /\ isupper(token[2]) THEN upper(word) ELSE capitalize(word)
    ELSE word

\* C7 (casing formatter): for every non-empty token _format_string raises
\* nothing and returns the replacement cased by the stated rule; a
\* one-character token counts as capitalized-style.
CasingLaw ==
    (call.fn = "_format_string" /\ Len(call.txt) >= 1) =>
        /\ call.kind = "str"
        /\ call.val = StatedCasing(call.txt, call.replacement)

\* C8 (PERSON replacement): a text of one token gives a given name cased by
\* that token; a text of two or more tokens gives "<Name> <Surname>", a given
\* name cased by token 1 and a surname cased by token 2, joined by one space.
PersonLaw ==
    (call.fn = "_replacePER" /\ Len(split(call.txt)) >= 1) =>
        LET tokens == split(call.txt) IN
        /\ call.kind = "str"
        /\ IF Len(tokens) = 1
           THEN \E name \in Range(_name_list) :
                   call.val = StatedCasing(tokens[1], name)
           ELSE \E name \in Range(_name_list), surname \in Range(_surname_list) :
                   call.val = StatedCasing(tokens[1], name) \o <<" ">>
                                 \o StatedCasing(tokens[2], surname)

\* The rows of the nomenclator the stated grammar draws streets and parks from.
StreetRows == { row \in Range(_nomenclator) : IsStreet(row) }
ParkRows == { row \in Range(_nomenclator) : IsPark(row) }

\* The branch of the stated LOCATION grammar that applies to a text.
StatedBranch(txt) ==
    LET lowered == lower(txt) IN
    IF \E i \in DOMAIN lowered : isdigit(lowered[i]) THEN 1
    ELSE IF \E m \in IntersectionMarkers : Contains(lowered, m) THEN 2
    ELSE IF \E k \in DistrictKeywords : Contains(lowered, k) THEN 3
    ELSE IF \E k \in ParkKeywords : Contains(lowered, k) THEN 4
    ELSE 5

\* C9 (LOCATION branch priority): the output has the shape of the first
\* branch that applies: digit (street and number 1..100, with way type and
\* particle only when a descriptor keyword is present), intersection marker
\* (two distinct streets and a conjunction), district keyword (a district
\* entry verbatim), park keyword (a park record), else a street record.
LocationLaw ==
    call.fn = "_replaceLOC" =>
        LET branch == StatedBranch(call.txt)
            described == \E k \in DescriptorKeywords : Contains(lower(call.txt), k)
        IN
        /\ call.kind = "str"
        /\ branch = 1 =>
              \E row \in StreetRows, n \in 1..100 :
                 call.val = (IF described THEN FormatRow(row) ELSE row.NOM)
                               \o <<" ">> \o IntToStr(n)
        /\ branch = 2 =>
              \E row1 \in StreetRows, row2 \in StreetRows, c \in Conjunctions :
                 /\ row1 # row2
                 /\ call.val = FormatRow(row1) \o <<" ">> \o c \o <<" ">> \o FormatRow(row2)
        /\ branch = 3 => call.val \in Range(_barrios)
        /\ branch = 4 => \E row \in ParkRows : call.val = FormatRow(row)
        /\ branch = 5 => \E row \in StreetRows : call.val = FormatRow(row)

\* A text with a digit, an intersection marker and a district keyword that
\* was answered with a street name and a number.
LocationLawWitness ==
    /\ call.fn = "_replaceLOC"
    /\ \E i \in DOMAIN call.txt : isdigit(call.txt[i])
    /\ \E k \in DistrictKeywords : Contains(lower(call.txt), k)
    /\ call.kind = "str"
    /\ \E row \in StreetRows : call.val = row.NOM \o <<" ">> \o IntToStr(100)

=============================================================================
